---- MODULE Spec2Model ----
(***************************************************************************)
(* PhotoFrameSite (src/src/App.js): a React component that composites a    *)
(* photo onto a white square frame and downloads the result, one image as  *)
(* a file, several as a zip.  The file holds two definitions of the        *)
(* component: the first (lines 17-265) draws every export on a canvas of   *)
(* its own and wraps the zip export in try/finally; the second (lines      *)
(* 275-479) draws on the on-screen canvas and has no finally.  ver says    *)
(* which definition is mounted.                                            *)
(*                                                                         *)
(* One step of the model is one macrotask of the browser's event loop: an  *)
(* input event with the render and the effects it causes, a timeout, a     *)
(* toBlob callback, the completion of generateAsync; each with the         *)
(* microtasks (await continuations) that follow it.                        *)
(***************************************************************************)
EXTENDS Integers, Sequences, FiniteSets, TLC

VARIABLES
  ver,         \* which definition of PhotoFrameSite is mounted: 1 or 2
  images,      \* useState([]): the committed selection, a sequence of files
  framePct,    \* useState(8)
  outputSize,  \* useState(2000)
  format,      \* useState('jpeg')
  loading,     \* useState(false)
  canvasRef,   \* canvasRef.current: the mounted <canvas>, or NoCanvas
  commits,     \* number of setImages commits so far: the current selection's number
  timers,      \* pending setTimeout callbacks, each with the closure of its render
  exports,     \* the exports started so far (downloadSingle / downloadZip calls)
  outputs,     \* what was handed to the browser: a.click() downloads and saveAs archives
  canvases,    \* for every canvas drawn on: the call that drew on it last
  events,      \* number of inputs so far: selections, clears, control changes, failures
  geo          \* drawFrameToCanvas's placement computation (geometry specification)

vars == <<ver, images, framePct, outputSize, format, loading, canvasRef,
          commits, timers, exports, outputs, canvases, events, geo>>

uiVars == <<ver, images, framePct, outputSize, format, loading, canvasRef,
            commits, timers, exports, outputs, canvases, events>>

----------------------------------------------------------------------------
(* Bounds of the model.                                                    *)

\* inputs in one run: selections and clears (setImages commits), changes of
\* the frame, size and format controls, and failures of the environment
\* (toBlob giving null, a throwing drawFrameToCanvas, zip.file or generateAsync)
MaxEvents == 2
\* files in one selection
MaxFiles == 2

----------------------------------------------------------------------------
(* Files, names and the values the controls offer.                         *)

\* The files the user picks from.  Two of them differ only in their
\* extension; one has nothing before its extension.
Files ==
  { [id |-> 1, name |-> <<"a", ".", "p", "n", "g">>],
    [id |-> 2, name |-> <<"a", ".", "j", "p", "g">>],
    [id |-> 3, name |-> <<".", "x">>] }

\* handleFiles: imgs is filled in onload order, so a selection is the chosen
\* files in any order; setImages is called once all have loaded, and never
\* for an empty FileList.
Selections ==
  UNION { { s \in [1..n -> Files] : \A i, j \in 1..n : i # j => s[i] # s[j] }
          : n \in 1..MaxFiles }

\* The values of the frame control the model exercises (a preset and the default),
\* of the size select and of the format radio.
FramePcts == {8, 16}
OutputSizes == {1200, 2000}
Formats == {"jpeg", "png"}

NoCanvas == <<"null", 0, 0>>
PreviewCall == <<0, 0>>
Null == [img |-> 0, pct |-> 0, size |-> 0, mime |-> "null"]

\* fileName.replace(/\.[^/.]+$/, ''): the last "." of the name and what follows
\* it are removed, when at least one character follows and none of them is "/".
StripExt(name) ==
  LET dots == { k \in 1..Len(name) :
                  /\ name[k] = "."
                  /\ k < Len(name)
                  /\ \A j \in (k+1)..Len(name) : name[j] \notin {".", "/"} }
  IN  IF dots = {} THEN name
      ELSE SubSeq(name, 1, (CHOOSE k \in dots : TRUE) - 1)

\* format === 'jpeg' ? 'jpg' : 'png'
Ext(fmt) == IF fmt = "jpeg" THEN <<"j", "p", "g">> ELSE <<"p", "n", "g">>

\* format === 'jpeg' ? 'image/jpeg' : 'image/png'
Mime(fmt) == IF fmt = "jpeg" THEN "image/jpeg" ELSE "image/png"

\* a.download = (fileName.replace(...) || 'framed-image') + `.${ext}`
SingleName(name, fmt) ==
  (IF StripExt(name) = <<>> THEN <<"framed-image">> ELSE StripExt(name))
    \o <<".">> \o Ext(fmt)

\* file.name.replace(...) + `.${ext}`
ZipName(name, fmt) == StripExt(name) \o <<".">> \o Ext(fmt)

ZipFileName == <<"framed-images.zip">>

\* k more inputs arrive.
Event(k) == events + k <= MaxEvents /\ events' = events + k

----------------------------------------------------------------------------
(* The pieces of the handlers.                                             *)

\* The closure of one render: the state the functions of that render read.
Closure(imgs, n) ==
  [gen |-> n, images |-> imgs, framePct |-> framePct,
   outputSize |-> outputSize, format |-> format]

\* useEffect(..., [images]): nothing is scheduled for an empty selection.
EffectTimer(imgs, n) == IF Len(imgs) = 0 THEN {} ELSE { Closure(imgs, n) }

\* The cleanup without its clearTimeout.
EffectCleanupForgotten(ts) == ts

\* return () => clearTimeout(timer): the cleanup of the previous render's
\* effect leaves no timer of that render pending.
EffectCleanup(ts) == { t \in ts : FALSE }

\* The dispatch with its test on the wrong length.
ExportKindOffByOne(imgs) == IF Len(imgs) <= 2 THEN "single" ELSE "zip"

\* The timeout callback: images.length === 1 ? downloadSingle : downloadZip.
ExportKind(imgs) == IF Len(imgs) = 1 THEN "single" ELSE "zip"

\* {images.length === 1 ? <canvas ref={canvasRef}/> : ...}: the canvas element
\* is mounted only while exactly one image is selected; React keeps the
\* element from one single selection to the next and makes a new one after
\* it was unmounted.
MountedCanvas(old, imgs, n) ==
  IF Len(imgs) # 1 THEN NoCanvas
  ELSE IF old # NoCanvas THEN old ELSE <<"ref", n, 0>>

\* drawFrameToCanvas: the canvas is resized, filled and drawn on by this call.
DrawOn(cvs, c, call) ==
  { r \in cvs : r.canvas # c } \cup { [canvas |-> c, by |-> call] }

\* drawPreview, run by the effect on [images, framePct, outputSize, format]
\* of the first definition; the second definition has no preview effect.
PreviewEffect(cvs, imgs, ref) ==
  IF ver = 1 /\ Len(imgs) = 1 /\ ref # NoCanvas
  THEN DrawOn(cvs, ref, PreviewCall)
  ELSE cvs

\* drawToBlob's render target for item i of export e: document.createElement
\* ('canvas') in the first definition, canvasRef.current in the second.
TargetCanvas(e, i) == IF ver = 1 THEN <<"new", e, i>> ELSE canvasRef

\* drawToBlob reading the component's current state instead of its closure.
drawToBlobLive(cl, file) ==
  [img |-> file.id, pct |-> framePct, size |-> outputSize, mime |-> Mime(format)]

\* drawToBlob: what toBlob encodes is the canvas as this call drew it, with
\* the parameters of the closure the call belongs to.
drawToBlob(cl, file) ==
  [img |-> file.id, pct |-> cl.framePct, size |-> cl.outputSize,
   mime |-> Mime(cl.format)]

\* zip.file(name, blob): an entry of that name is added, replacing one of the same name.
ZipFile(zip, name, blob) ==
  { en \in zip : en.name # name } \cup { [name |-> name, blob |-> blob] }

\* The loop body without its test for a null blob.
ZipAddNoTest(zip, name, blob) == ZipFile(zip, name, blob)

\* downloadZip's loop body after the await: if (!blob) continue; zip.file(...)
\* in the first definition; the second calls zip.file without the test.
ZipAdd(zip, name, blob) ==
  IF ver = 1 /\ blob = Null THEN zip ELSE ZipFile(zip, name, blob)

\* finally { setLoading(false) } of the first definition; the second
\* definition resets loading only after saveAs.
LoadingAfterThrow(l) == IF ver = 1 THEN FALSE ELSE l

NewExport(cl) ==
  [gen |-> cl.gen, kind |-> ExportKind(cl.images), cl |-> cl, pc |-> "start",
   i |-> 1, pend |-> {}, res |-> <<>>, zip |-> {}, err |-> "none"]

Failed(ex, why) == [ex EXCEPT !.pc = "failed", !.err = why, !.pend = {}]

Pending(e, ex, i) ==
  [idx |-> i, canvas |-> TargetCanvas(e, i), blob |-> drawToBlob(ex.cl, ex.cl.images[i])]

----------------------------------------------------------------------------
(* Init and the actions.                                                   *)

Init ==
  /\ ver \in {1, 2}
  /\ images = <<>>
  /\ framePct = 8
  /\ outputSize = 2000
  /\ format = "jpeg"
  /\ loading = FALSE
  /\ canvasRef = NoCanvas
  /\ commits = 0
  /\ timers = {}
  /\ exports = <<>>
  /\ outputs = <<>>
  /\ canvases = {}
  /\ events = 0
  /\ geo = [pc |-> "off"]

\* setImages(imgs) and the render it causes: the cleanup of the previous
\* effect, the new effect, the canvas element, the preview effect.
Commit(imgs) ==
  /\ Event(1)
  /\ commits' = commits + 1
  /\ images' = imgs
  /\ timers' = EffectCleanup(timers) \cup EffectTimer(imgs, commits + 1)
  /\ canvasRef' = MountedCanvas(canvasRef, imgs, commits + 1)
  /\ canvases' = PreviewEffect(canvases, imgs, canvasRef')
  /\ UNCHANGED <<ver, framePct, outputSize, format, loading, exports, outputs, geo>>

\* handleFiles / onDrop: every image has loaded.
SetImages == \E s \in Selections : Commit(s)

\* The clear button: setImages([]).
Clear == Commit(<<>>)

SetFramePct ==
  \E p \in FramePcts :
    /\ p # framePct
    /\ Event(1)
    /\ framePct' = p
    /\ canvases' = PreviewEffect(canvases, images, canvasRef)
    /\ UNCHANGED <<ver, images, outputSize, format, loading, canvasRef, commits,
                   timers, exports, outputs, geo>>

SetOutputSize ==
  \E s \in OutputSizes :
    /\ s # outputSize
    /\ Event(1)
    /\ outputSize' = s
    /\ canvases' = PreviewEffect(canvases, images, canvasRef)
    /\ UNCHANGED <<ver, images, framePct, format, loading, canvasRef, commits,
                   timers, exports, outputs, geo>>

SetFormat ==
  \E f \in Formats :
    /\ f # format
    /\ Event(1)
    /\ format' = f
    /\ canvases' = PreviewEffect(canvases, images, canvasRef)
    /\ UNCHANGED <<ver, images, framePct, outputSize, loading, canvasRef, commits,
                   timers, exports, outputs, geo>>

\* The timeout of a render fires: downloadSingle or downloadZip up to its
\* first await.  drawOk is whether drawFrameToCanvas returns or throws
\* (getContext gives null when the browser refuses another context).
TimerFire ==
  \E t \in timers, drawOk \in BOOLEAN :
    LET e == Len(exports) + 1
        ex == NewExport(t)
        n == Len(t.images)
        c1 == TargetCanvas(e, 1)
    IN
    /\ timers' = timers \ {t}
    /\ Event(IF drawOk THEN 0 ELSE 1)
    /\ IF ex.kind = "single" \/ ver = 1
       THEN \* one drawToBlob, then await
            IF drawOk /\ c1 # NoCanvas
            THEN /\ exports' = Append(exports,
                       [ex EXCEPT !.pc = "encoding", !.pend = {Pending(e, ex, 1)}])
                 /\ canvases' = DrawOn(canvases, c1, <<e, 1>>)
                 /\ loading' = IF ex.kind = "zip" THEN TRUE ELSE loading
            ELSE /\ exports' = Append(exports, Failed(ex, "draw"))
                 /\ canvases' = canvases
                 /\ loading' = IF ex.kind = "zip" THEN LoadingAfterThrow(TRUE) ELSE loading
       ELSE \* second definition's downloadZip: Promise.all starts every drawToBlob
            IF drawOk /\ c1 # NoCanvas
            THEN /\ exports' = Append(exports,
                       [ex EXCEPT !.pc = "encoding",
                                  !.pend = { Pending(e, ex, i) : i \in 1..n }])
                 /\ canvases' = DrawOn(canvases, c1, <<e, n>>)
                 /\ loading' = TRUE
            ELSE /\ exports' = Append(exports, Failed(ex, "draw"))
                 /\ canvases' = canvases
                 /\ loading' = LoadingAfterThrow(TRUE)
    /\ UNCHANGED <<ver, images, framePct, outputSize, format, canvasRef, commits,
                   outputs, geo>>

\* A toBlob callback: the blob or null; then the continuation of the await,
\* up to the next await.  fileOk is whether zip.file returns or throws, drawOk
\* whether the next item's drawFrameToCanvas does.
ToBlobDone ==
  \E e \in 1..Len(exports) :
    \E p \in exports[e].pend, gotBlob \in BOOLEAN, fileOk \in BOOLEAN, drawOk \in BOOLEAN :
      LET ex == exports[e]
          cl == ex.cl
          blob == IF gotBlob THEN p.blob ELSE Null
          file == cl.images[p.idx]
          seen == [ex EXCEPT !.pend = ex.pend \ {p},
                             !.res = [k \in DOMAIN ex.res \cup {p.idx} |->
                                        IF k = p.idx THEN gotBlob ELSE ex.res[k]]]
          added == [seen EXCEPT !.zip = ZipAdd(ex.zip, ZipName(file.name, cl.format), blob)]
          next == p.idx + 1
          cn == TargetCanvas(e, next)
      IN
      /\ ex.pc = "encoding"
      /\ Event((IF gotBlob THEN 0 ELSE 1) + (IF fileOk THEN 0 ELSE 1) + (IF drawOk THEN 0 ELSE 1))
      /\ IF ex.kind = "single"
         THEN \* URL.createObjectURL(blob) throws on null
              /\ fileOk /\ drawOk
              /\ IF gotBlob
                 THEN /\ exports' = [exports EXCEPT ![e] = [seen EXCEPT !.pc = "done"]]
                      /\ outputs' = Append(outputs,
                            [kind |-> "file", by |-> e,
                             name |-> SingleName(file.name, cl.format),
                             blob |-> blob, entries |-> {}])
                 ELSE /\ exports' = [exports EXCEPT ![e] = Failed(seen, "url")]
                      /\ outputs' = outputs
              /\ UNCHANGED <<loading, canvases>>
         ELSE IF ~fileOk /\ (gotBlob \/ ver = 2)
         THEN \* zip.file throws
              /\ drawOk
              /\ exports' = [exports EXCEPT ![e] = Failed(seen, "file")]
              /\ loading' = LoadingAfterThrow(loading)
              /\ UNCHANGED <<outputs, canvases>>
         ELSE /\ fileOk
              /\ IF ver = 1 /\ next <= Len(cl.images)
                 THEN \* the loop's next drawToBlob
                      IF drawOk
                      THEN /\ exports' = [exports EXCEPT ![e] =
                                 [added EXCEPT !.i = next, !.pend = {Pending(e, ex, next)}]]
                           /\ canvases' = DrawOn(canvases, cn, <<e, next>>)
                           /\ loading' = loading
                      ELSE /\ exports' = [exports EXCEPT ![e] = Failed(added, "draw")]
                           /\ canvases' = canvases
                           /\ loading' = LoadingAfterThrow(loading)
                 ELSE /\ drawOk
                      /\ exports' = [exports EXCEPT ![e] =
                            IF added.pend = {} THEN [added EXCEPT !.pc = "generating"]
                            ELSE added]
                      /\ UNCHANGED <<loading, canvases>>
              /\ outputs' = outputs
      /\ UNCHANGED <<ver, images, framePct, outputSize, format, canvasRef, commits,
                     timers, geo>>

\* zip.generateAsync settles: saveAs(content, 'framed-images.zip') and
\* setLoading(false), or the rejection.
GenerateDone ==
  \E e \in 1..Len(exports), genOk \in BOOLEAN :
    LET ex == exports[e] IN
    /\ ex.pc = "generating"
    /\ Event(IF genOk THEN 0 ELSE 1)
    /\ IF genOk
       THEN /\ exports' = [exports EXCEPT ![e] = [ex EXCEPT !.pc = "done"]]
            /\ outputs' = Append(outputs,
                  [kind |-> "zip", by |-> e, name |-> ZipFileName,
                   blob |-> Null, entries |-> ex.zip])
            /\ loading' = FALSE
       ELSE /\ exports' = [exports EXCEPT ![e] = Failed(ex, "generate")]
            /\ outputs' = outputs
            /\ loading' = LoadingAfterThrow(loading)
    /\ UNCHANGED <<ver, images, framePct, outputSize, format, canvasRef, commits,
                   timers, canvases, geo>>

Next ==
  \/ SetImages
  \/ Clear
  \/ SetFramePct
  \/ SetOutputSize
  \/ SetFormat
  \/ TimerFire
  \/ ToBlobDone
  \/ GenerateDone

Spec == Init /\ [][Next]_vars

----------------------------------------------------------------------------
(* JavaScript numbers.  The placement arithmetic of drawFrameToCanvas is   *)
(* done in IEEE 754 binary64: every operation yields the exact result      *)
(* rounded to MantBits significant bits, ties to even.  A number is kept   *)
(* here as a sign and a magnitude in units of 2^-FracBits; magnitudes are  *)
(* naturals written in base 2^LimbBits, least significant limb first,      *)
(* because they do not fit the model checker's integers.                   *)

\* significant bits of a binary64 number
MantBits == 53
\* fractional bits kept: every number the computation meets, for image sides
\* below 2^15, is a multiple of 2^-59
FracBits == 64
\* bits per limb of a magnitude
LimbBits == 12

Base == 2^LimbBits

RECURSIVE NatToBig(_)
NatToBig(n) == IF n = 0 THEN <<>> ELSE <<n % Base>> \o NatToBig(n \div Base)

RECURSIVE BigToNat(_)
BigToNat(a) == IF a = <<>> THEN 0 ELSE a[1] + Base * BigToNat(Tail(a))

RECURSIVE BigNorm(_)
BigNorm(a) ==
  IF a = <<>> THEN a
  ELSE IF a[Len(a)] = 0 THEN BigNorm(SubSeq(a, 1, Len(a) - 1)) ELSE a

RECURSIVE BigAddC(_, _, _)
BigAddC(a, b, c) ==
  IF a = <<>> /\ b = <<>> THEN (IF c = 0 THEN <<>> ELSE <<c>>)
  ELSE LET x == (IF a = <<>> THEN 0 ELSE a[1]) + (IF b = <<>> THEN 0 ELSE b[1]) + c
       IN  <<x % Base>> \o BigAddC(IF a = <<>> THEN a ELSE Tail(a),
                                    IF b = <<>> THEN b ELSE Tail(b), x \div Base)

BigAdd(a, b) == BigAddC(a, b, 0)

\* a - b for a >= b
RECURSIVE BigSubB(_, _, _)
BigSubB(a, b, c) ==
  IF a = <<>> THEN <<>>
  ELSE LET x == a[1] - (IF b = <<>> THEN 0 ELSE b[1]) - c
       IN  <<x % Base>> \o BigSubB(Tail(a), IF b = <<>> THEN b ELSE Tail(b),
                                    IF x < 0 THEN 1 ELSE 0)

BigSub(a, b) == BigNorm(BigSubB(a, b, 0))

\* -1, 0 or 1 as a < b, a = b or a > b
RECURSIVE BigCmpFrom(_, _, _)
BigCmpFrom(a, b, k) ==
  IF k = 0 THEN 0
  ELSE IF a[k] < b[k] THEN -1
  ELSE IF a[k] > b[k] THEN 1
  ELSE BigCmpFrom(a, b, k - 1)

BigCmp(a, b) ==
  IF Len(a) < Len(b) THEN -1
  ELSE IF Len(a) > Len(b) THEN 1
  ELSE BigCmpFrom(a, b, Len(a))

BigLe(a, b) == BigCmp(a, b) <= 0

\* a * m for a natural m below 2^15
RECURSIVE BigMulC(_, _, _)
BigMulC(a, m, c) ==
  IF a = <<>> THEN NatToBig(c)
  ELSE LET x == a[1] * m + c
       IN  <<x % Base>> \o BigMulC(Tail(a), m, x \div Base)

BigMulSmall(a, m) == BigNorm(BigMulC(a, m, 0))

\* quotient and remainder of a by a natural d below 2^15
RECURSIVE BigDivR(_, _, _)
BigDivR(a, d, k) ==
  IF k > Len(a) THEN [q |-> <<>>, r |-> 0]
  ELSE LET hi == BigDivR(a, d, k + 1)
           x == hi.r * Base + a[k]
       IN  [q |-> <<x \div d>> \o hi.q, r |-> x % d]

BigDivSmall(a, d) ==
  LET qr == BigDivR(a, d, 1) IN [q |-> BigNorm(qr.q), r |-> qr.r]

\* a * 2^k and the integer part of a / 2^k
BigShl(a, k) ==
  IF a = <<>> THEN a
  ELSE [i \in 1..(k \div LimbBits) |-> 0] \o BigMulSmall(a, 2^(k % LimbBits))

BigShr(a, k) ==
  IF k \div LimbBits >= Len(a) THEN <<>>
  ELSE BigDivSmall(SubSeq(a, k \div LimbBits + 1, Len(a)), 2^(k % LimbBits)).q

RECURSIVE BitLenNat(_)
BitLenNat(n) == IF n = 0 THEN 0 ELSE 1 + BitLenNat(n \div 2)

BigBitLen(a) ==
  IF a = <<>> THEN 0 ELSE LimbBits * (Len(a) - 1) + BitLenNat(a[Len(a)])

BigOdd(a) == a # <<>> /\ a[1] % 2 = 1

\* The magnitude m, plus a positive rest below one unit when sticky, rounded
\* to MantBits significant bits, ties to even.
RoundMant(m, sticky) ==
  LET t == BigBitLen(m) - MantBits IN
  IF t <= 0 THEN m
  ELSE LET q == BigShr(m, t)
           r == BigSub(m, BigShl(q, t))
           c == BigCmp(r, BigShl(<<1>>, t - 1))
           up == c > 0 \/ (c = 0 /\ (sticky \/ BigOdd(q)))
       IN  BigShl(IF up THEN BigAdd(q, <<1>>) ELSE q, t)

Num(neg, mag) == [neg |-> neg /\ mag # <<>>, mag |-> mag]

\* an integer as a number
NumOf(n) == Num(n < 0, BigShl(NatToBig(IF n < 0 THEN -n ELSE n), FracBits))

Neg(x) == Num(~x.neg, x.mag)

\* the exact sum of two numbers
ExactAdd(x, y) ==
  IF x.neg = y.neg THEN Num(x.neg, BigAdd(x.mag, y.mag))
  ELSE IF BigCmp(x.mag, y.mag) >= 0 THEN Num(x.neg, BigSub(x.mag, y.mag))
  ELSE Num(y.neg, BigSub(y.mag, x.mag))

NumLe(x, y) == LET d == ExactAdd(x, Neg(y)) IN d.neg \/ d.mag = <<>>

\* a / b of two integers, a >= 0 and 0 < b < 2^15
NumDivInt(a, b) ==
  LET qr == BigDivSmall(BigShl(NatToBig(a), FracBits), b)
  IN  Num(FALSE, RoundMant(qr.q, qr.r # 0))

\* x * n for an integer n, 0 <= n < 2^15
NumMulInt(x, n) == Num(x.neg, RoundMant(BigMulSmall(x.mag, n), FALSE))

\* x + y and x - y
NumAdd(x, y) == LET s == ExactAdd(x, y) IN Num(s.neg, RoundMant(s.mag, FALSE))
NumSub(x, y) == NumAdd(x, Neg(y))

\* x / 2, which is exact
NumHalf(x) == Num(x.neg, BigDivSmall(x.mag, 2).q)

\* Math.min and Math.max
NumMin(x, y) == IF NumLe(x, y) THEN x ELSE y
NumMax(x, y) == IF NumLe(x, y) THEN y ELSE x

\* Math.round of a number >= 0: the nearest integer, a half rounding up
MathRound(x) ==
  BigToNat(BigShr(BigAdd(x.mag, BigShl(<<1>>, FracBits - 1)), FracBits))

----------------------------------------------------------------------------
(* drawFrameToCanvas's placement of the image.                             *)

\* The frame slider (min 2, max 20; the presets lie within) and the options
\* of the size select.
SliderPcts == 2..20
SizeOptions == {1200, 1600, 2000, 3000}

\* The widths and heights of the images composited: common photo and video
\* sizes, and a one-pixel side.
ImageSides == {1, 1080, 1920, 3000, 4000, 6000}

\* const border = Math.round((framePct / 100) * size)
Border(pct, size) == MathRound(NumMulInt(NumDivInt(pct, 100), size))

\* const innerSize = size - border * 2
InnerSize(pct, size) == size - Border(pct, size) * 2

\* The scale that fills the interior and crops the image.
ScaleCover(inner, iw, ih) == NumMax(NumDivInt(inner, iw), NumDivInt(inner, ih))

\* const scale = Math.min(innerSize / img.width, innerSize / img.height)
Scale(inner, iw, ih) == NumMin(NumDivInt(inner, iw), NumDivInt(inner, ih))

\* const w = img.width * scale;  const h = img.height * scale
DrawnSide(side, scale) == NumMulInt(scale, side)

\* The offset without its division by two.
OffsetNotHalved(border, inner, d) ==
  NumAdd(NumOf(border), NumSub(NumOf(inner), d))

\* const x = border + (innerSize - w) / 2;  const y = border + (innerSize - h) / 2
Offset(border, inner, d) ==
  NumAdd(NumOf(border), NumHalf(NumSub(NumOf(inner), d)))

\* drawFrameToCanvas(canvas, img): the rectangle handed to ctx.drawImage.
drawFrameToCanvas(pct, size, iw, ih) ==
  LET border == Border(pct, size)
      inner == InnerSize(pct, size)
      scale == Scale(inner, iw, ih)
      w == DrawnSide(iw, scale)
      h == DrawnSide(ih, scale)
  IN  [size |-> size, border |-> border, inner |-> inner, w |-> w, h |-> h,
       x |-> Offset(border, inner, w), y |-> Offset(border, inner, h)]

\* The component with a frame percentage and an output size chosen and an
\* image loaded, before drawFrameToCanvas has run on it.
GeoInit ==
  /\ ver \in {1, 2}
  /\ images = <<>>
  /\ framePct \in SliderPcts
  /\ outputSize \in SizeOptions
  /\ format = "jpeg"
  /\ loading = FALSE
  /\ canvasRef = NoCanvas
  /\ commits = 0
  /\ timers = {}
  /\ exports = <<>>
  /\ outputs = <<>>
  /\ canvases = {}
  /\ events = 0
  /\ \E iw \in ImageSides, ih \in ImageSides :
       geo = [pc |-> "loaded", iw |-> iw, ih |-> ih, rect |-> <<>>]

\* drawFrameToCanvas runs on the image.
GeoDraw ==
  /\ geo.pc = "loaded"
  /\ InnerSize(framePct, outputSize) > 0
  /\ geo' = [geo EXCEPT !.pc = "drawn",
                        !.rect = drawFrameToCanvas(framePct, outputSize, geo.iw, geo.ih)]
  /\ UNCHANGED uiVars

GeoNext == GeoDraw

SpecGeo == GeoInit /\ [][GeoNext]_vars

----------------------------------------------------------------------------
(* Properties of the export state machine.                                 *)

OutputIds == 1..Len(outputs)
ExportIds == 1..Len(exports)
OutputsOf(e) == { k \in OutputIds : outputs[k].by = e }
Underway(e) == exports[e].pc \in {"encoding", "generating"}
Terminated(e) == exports[e].pc \in {"done", "failed"}
Names(zip) == { en.name : en \in zip }
EndsWith(s, suf) ==
  Len(s) >= Len(suf) /\ SubSeq(s, Len(s) - Len(suf) + 1, Len(s)) = suf
KindFor(n) == IF n = 1 THEN "file" ELSE "zip"

\* C1 as stated: the dispatch depends only on the size of the selection; an
\* empty selection produces nothing, a selection of one image exactly one
\* single-image download and no archive, a selection of two or more exactly
\* one archive named framed-images.zip and no single-image download.
C1_ExactlyOneOutput ==
  /\ \A t \in timers : Len(t.images) > 0
  /\ \A e \in ExportIds :
       /\ Len(exports[e].cl.images) > 0
       /\ Terminated(e) =>
            /\ Cardinality(OutputsOf(e)) = 1
            /\ \A k \in OutputsOf(e) :
                 outputs[k].kind = KindFor(Len(exports[e].cl.images))

\* C1 amended: an empty selection schedules and produces nothing; an export
\* of one image produces only single-image downloads and an export of two or
\* more only archives named framed-images.zip; an export that runs to
\* completion has produced exactly one output and an export that failed or
\* is still running has produced none.
C1_Dispatch ==
  /\ \A t \in timers : Len(t.images) > 0
  /\ \A k \in OutputIds : outputs[k].by \in ExportIds
  /\ \A e \in ExportIds :
       /\ Len(exports[e].cl.images) > 0
       /\ Cardinality(OutputsOf(e)) = (IF exports[e].pc = "done" THEN 1 ELSE 0)
       /\ \A k \in OutputsOf(e) :
            /\ outputs[k].kind = KindFor(Len(exports[e].cl.images))
            /\ outputs[k].kind = "zip" => outputs[k].name = ZipFileName

\* Both kinds of export have run to completion, each with its one output.
C1_Witness ==
  /\ \E k \in OutputIds :
       outputs[k].kind = "file" /\ Len(exports[outputs[k].by].cl.images) = 1
  /\ \E k \in OutputIds :
       outputs[k].kind = "zip" /\ Len(exports[outputs[k].by].cl.images) = 2

\* C2 as stated: the archive saved by a batch export of n items whose
\* compositing all succeeded holds exactly n entries, one per item, each named
\* stripExtension(file name) + '.' + ext.
C2_EntryPerItem ==
  \A k \in OutputIds :
    LET o == outputs[k]
        ex == exports[o.by]
        n == Len(ex.cl.images)
    IN  (o.kind = "zip" /\ \A i \in 1..n : i \in DOMAIN ex.res /\ ex.res[i])
          => /\ Cardinality(o.entries) = n
             /\ Names(o.entries) =
                  { ZipName(ex.cl.images[i].name, ex.cl.format) : i \in 1..n }

\* C5 as stated: while the encoding a drawToBlob call asked for is pending,
\* the canvas it drew on is as that call left it: no other compositing call
\* and no preview draw has resized or drawn on it.
C5_OwnRenderTarget ==
  \A e \in ExportIds :
    \A p \in exports[e].pend :
      \E r \in canvases : r.canvas = p.canvas /\ r.by = <<e, p.idx>>

\* C6 as stated: loading is true in every state in which a batch export is
\* underway.
C6_LoadingWhileUnderway ==
  (\E e \in ExportIds : exports[e].kind = "zip" /\ Underway(e)) => loading

\* a batch export fails in this step
FailsNow(e) ==
  /\ exports'[e].kind = "zip"
  /\ exports'[e].pc = "failed"
  /\ (e > Len(exports) \/ exports[e].pc # "failed")

C7_Step ==
  \A e \in 1..Len(exports') :
    FailsNow(e) =>
      /\ ~loading'
      /\ images' = images
      /\ framePct' = framePct
      /\ outputSize' = outputSize
      /\ format' = format

\* C7 as stated: a failure inside a batch export is scoped to that export:
\* the step in which the export ends with an exception resets loading to
\* false and leaves images, framePct, outputSize and format as they were.
C7_FailureScoped == [][C7_Step]_vars

\* the timers and exports of a state
C8_TimerState ==
  /\ \A t \in timers : t.gen = commits /\ t.images = images
  /\ Cardinality(timers) <= 1
  /\ \A e \in ExportIds :
       /\ \A t \in timers : t.gen # exports[e].gen
       /\ \A f \in ExportIds : e # f => exports[e].gen # exports[f].gen

\* one step against the exports
C8_Step ==
  /\ commits' # commits => (exports' = exports /\ outputs' = outputs)
  /\ Len(exports') > Len(exports) =>
       /\ exports'[Len(exports')].gen = commits
       /\ exports'[Len(exports')].cl.images = images
       /\ SubSeq(exports', 1, Len(exports)) = exports
  /\ \A e \in ExportIds :
       /\ Len(exports') >= Len(exports)
       /\ exports'[e].gen = exports[e].gen
       /\ exports'[e].cl = exports[e].cl

\* C8: a pending timer is always that of the current selection, a selection
\* starts at most one export, and an export starts only for the selection
\* that is current when its timer fires; a clear or a replacement leaves the
\* exports already started, and what they have produced, as they are.
C8_OneExportPerCurrentSelection == [](C8_TimerState) /\ [][C8_Step]_vars

\* An export produced its output although its selection is no longer the
\* current one, and a selection that was replaced before its timer fired
\* started nothing.
C8_Witness ==
  /\ \E k \in OutputIds : exports[outputs[k].by].gen < commits
  /\ commits = 2

\* a blob composited and encoded with the parameters of closure cl
BlobOfClosure(b, cl) ==
  b.pct = cl.framePct /\ b.size = cl.outputSize /\ b.mime = Mime(cl.format)

\* a file name whose extension is that of the blob's encoding
NameMatchesMime(name, b) ==
  /\ b.mime \in {"image/jpeg", "image/png"}
  /\ EndsWith(name, <<".", "j", "p", "g">>) <=> b.mime = "image/jpeg"
  /\ EndsWith(name, <<".", "p", "n", "g">>) <=> b.mime = "image/png"

\* C9: every blob of one export, pending or in an output, was composited with
\* the frame percentage and output size and encoded in the format of the one
\* closure the export runs in, and every output name ends with the extension
\* of its blob's encoding.
C9_OneSnapshot ==
  /\ \A e \in ExportIds :
       /\ \A p \in exports[e].pend : BlobOfClosure(p.blob, exports[e].cl)
       /\ \A en \in exports[e].zip :
            en.blob # Null => BlobOfClosure(en.blob, exports[e].cl)
  /\ \A k \in OutputIds :
       LET o == outputs[k] IN
       /\ o.kind = "file" =>
            BlobOfClosure(o.blob, exports[o.by].cl) /\ NameMatchesMime(o.name, o.blob)
       /\ \A en \in o.entries :
            /\ BlobOfClosure(en.blob, exports[o.by].cl)
            /\ NameMatchesMime(en.name, en.blob)
            /\ \A en2 \in o.entries :
                 /\ en2.blob.pct = en.blob.pct
                 /\ en2.blob.size = en.blob.size
                 /\ en2.blob.mime = en.blob.mime

\* An archive of two entries was saved after the user had changed a control.
C9_Witness ==
  \E k \in OutputIds :
    /\ outputs[k].kind = "zip"
    /\ Cardinality(outputs[k].entries) = 2
    /\ \E en \in outputs[k].entries :
         \/ en.blob.pct # framePct
         \/ en.blob.size # outputSize
         \/ en.blob.mime # Mime(format)

\* the entry names of the items of an export whose encoding gave a blob
NamesWithBlob(ex) ==
  { ZipName(ex.cl.images[i].name, ex.cl.format) :
      i \in { j \in DOMAIN ex.res : ex.res[j] } }

\* C10: in a batch export the archive under assembly, and the archive saved,
\* holds an entry for exactly the items whose encoding produced a blob: an
\* item whose encoding gave null is left out, the others are added, and the
\* archive is generated and saved all the same.
C10_NullBlobSkipped ==
  /\ \A e \in ExportIds :
       (exports[e].kind = "zip" /\ exports[e].pc # "failed") =>
         /\ Names(exports[e].zip) = NamesWithBlob(exports[e])
         /\ \A en \in exports[e].zip : en.blob # Null
  /\ \A k \in OutputIds :
       LET o == outputs[k]
           ex == exports[o.by]
       IN  o.kind = "zip" =>
             /\ DOMAIN ex.res = 1..Len(ex.cl.images)
             /\ Names(o.entries) = NamesWithBlob(ex)
             /\ \A en \in o.entries :
                  \E i \in DOMAIN ex.res :
                    /\ ex.res[i]
                    /\ en.name = ZipName(ex.cl.images[i].name, ex.cl.format)
                    /\ en.blob = drawToBlob(ex.cl, ex.cl.images[i])

\* An archive was saved by an export one of whose items encoded to null: it
\* holds the other item only.
C10_Witness ==
  \E k \in OutputIds :
    LET o == outputs[k]
        ex == exports[o.by]
    IN  /\ o.kind = "zip"
        /\ \E i \in DOMAIN ex.res : ~ex.res[i]
        /\ Cardinality(o.entries) = 1

----------------------------------------------------------------------------
(* Properties of the placement.                                            *)

Drawn == geo.pc = "drawn"

\* 2^-36 of a pixel, and |a - b| and a - b against it
Tol == Num(FALSE, BigShl(<<1>>, FracBits - 36))
Near(a, b) == BigLe(ExactAdd(a, Neg(b)).mag, Tol.mag)
LeNear(a, b) == NumLe(a, ExactAdd(b, Tol))

\* the margins left and right of (above and below) a side d placed at o
MarginBefore(r, o) == ExactAdd(o, Neg(NumOf(r.border)))
MarginAfter(r, o, d) == ExactAdd(NumOf(r.size - r.border), Neg(ExactAdd(o, d)))

C4_PlacementExact ==
  Drawn =>
    LET r == geo.rect IN
    /\ BigMulSmall(r.w.mag, geo.ih) = BigMulSmall(r.h.mag, geo.iw)
    /\ NumMax(r.w, r.h) = NumOf(r.inner)
    /\ MarginBefore(r, r.x) = MarginAfter(r, r.x, r.w)
    /\ MarginBefore(r, r.y) = MarginAfter(r, r.y, r.h)
    /\ (framePct = 8 /\ outputSize = 2000 /\ geo.iw = 4000 /\ geo.ih = 3000) =>
         /\ r.border = 160 /\ r.inner = 1680
         /\ r.w = NumOf(1680) /\ r.h = NumOf(1260)
         /\ r.x = NumOf(160) /\ r.y = NumOf(370)

\* C4 amended: the same up to the rounding of the arithmetic: the aspect
\* ratios differ by less than 2^-50 of their value, the longer side is within
\* 2^-36 of a pixel of innerSize and the two margins of each axis are within
\* 2^-36 of a pixel of each other; the 4000x3000 example holds exactly.
C4_Placement ==
  Drawn =>
    LET r == geo.rect
        a == BigMulSmall(r.w.mag, geo.ih)
        b == BigMulSmall(r.h.mag, geo.iw)
        d == IF BigLe(a, b) THEN BigSub(b, a) ELSE BigSub(a, b)
    IN
    /\ ~r.w.neg /\ ~r.h.neg /\ r.w.mag # <<>> /\ r.h.mag # <<>>
    /\ BigLe(BigShl(d, 50), a)
    /\ Near(NumMax(r.w, r.h), NumOf(r.inner))
    /\ Near(MarginBefore(r, r.x), MarginAfter(r, r.x, r.w))
    /\ Near(MarginBefore(r, r.y), MarginAfter(r, r.y, r.h))
    /\ (framePct = 8 /\ outputSize = 2000 /\ geo.iw = 4000 /\ geo.ih = 3000) =>
         /\ r.border = 160 /\ r.inner = 1680
         /\ r.w = NumOf(1680) /\ r.h = NumOf(1260)
         /\ r.x = NumOf(160) /\ r.y = NumOf(370)

\* The 4000x3000 image has been drawn with framePct 8 and outputSize 2000.
C4_Witness ==
  /\ Drawn
  /\ framePct = 8 /\ outputSize = 2000 /\ geo.iw = 4000 /\ geo.ih = 3000
  /\ geo.rect.y = NumOf(370)

====
